---- MODULE Spec2Model ----
(***************************************************************************)
(* Quark: a Snowflake-style identifier generator (src/src/index.ts, the    *)
(* npm build, and src/unnamed/part_000, the JSR build of the same class).  *)
(* The model covers the constructor, generate(), the extract* family and   *)
(* the NTP SYNC handler that changes timeDifference.                       *)
(*                                                                         *)
(* BigInt values are unbounded integers; the operators & | << >> are       *)
(* modelled bit by bit.  Optional JavaScript values are sequences of       *)
(* length 0 (undefined) or 1.  timeDifference is a JS number that can hold *)
(* a fraction; it is kept in units of half a millisecond so that           *)
(* Math.round() in generate() is a real rounding.                          *)
(***************************************************************************)
EXTENDS Integers, Sequences, FiniteSets, TLC

\* ------------------------------------------------------------------ bounds
\* Date.now() returns a value in 0..MaxClock
MaxClock == 2
\* number of generate() calls followed on one instance
MaxCalls == 4
\* |NTP time - Date.now()| observed by a SYNC event, in half milliseconds
MaxSkew == 2
\* calls followed beyond 2^sequenceBits when the clock is frozen
FrozenExtra == 3
\* extract() calls recorded in one run
MaxExtracts == 2

\* ------------------------------------------------- constants of the code
\* the shift of the timestamp field, 22n in generate() and extractTimestamp()
TimestampShift == 22
\* field initializer allocations.machineId
DefaultMachineIdBits == 10
\* field initializer allocations.sequence
DefaultSequenceBits == 12
\* the bit budget tested by the constructor
MaxAllocation == 22

VARIABLES
    args,            \* the constructor call: build, argument shape, options
    status,          \* "ready": an instance exists; "threw": the constructor threw
    error,           \* the message of the exception thrown by the constructor
    machineId,       \* this.machineId
    lastTimestamp,   \* this.lastTimestamp
    sequence,        \* this.sequence
    epoch,           \* this.epoch
    allocations,     \* this.allocations
    ntpClient,       \* this.ntpClient !== null
    timeDifference,  \* this.timeDifference, in half milliseconds
    calls,           \* history: number of generate() calls made
    recent,          \* history: the last two calls, oldest first: [now, id]
    emitted,         \* history: the set of identifiers returned so far
    other,           \* a second instance, when there is one: <<>> or <<fields>>
    extracted,       \* history: the extract() calls made: [quark, info]
    race,            \* two overlapping generate() calls, when modelled
    observed         \* history: did the clock stay regular, and for how many
                     \* calls in a row it has shown its latest value

vars == <<args, status, error, machineId, lastTimestamp, sequence, epoch,
          allocations, ntpClient, timeDifference, calls, recent, emitted,
          other, extracted, race, observed>>

\* ------------------------------------------------------------ bit algebra
Pow2(n) == 2^n

RECURSIVE BitAnd(_, _)
\* a & b for a BigInt a (two's complement, any sign) and a mask b >= 0
BitAnd(a, b) ==
    IF b = 0 THEN 0
    ELSE (a % 2) * (b % 2) + 2 * BitAnd(a \div 2, b \div 2)

RECURSIVE BitOr(_, _)
\* a | b for a >= 0 and b >= 0
BitOr(a, b) ==
    IF a = 0 THEN b
    ELSE IF b = 0 THEN a
    ELSE (IF a % 2 = 1 \/ b % 2 = 1 THEN 1 ELSE 0) + 2 * BitOr(a \div 2, b \div 2)

\* a << n
Shl(a, n) == a * Pow2(n)

\* a >> n (arithmetic shift: floor division)
Shr(a, n) == a \div Pow2(n)

\* Number(x) of a BigInt; exact for |x| < 2^53, which every value here is
ToNumber(x) == x

\* Math.round(x) of x given in half units: the nearest integer, halves go up
MathRound(x2) == (x2 + 1) \div 2

\* Math.max(a, b)
MathMax(a, b) == IF b > a THEN b ELSE a

bigIntMax(a, b) == IF b > a THEN b ELSE a

\* mutant: a field of width 0 starting at bit 0 is not masked
extractNumRangeZeroWidthUnmasked(num, start, end) ==
    IF end = 0 THEN Shr(num, start)
    ELSE Shr(BitAnd(num, Shl(1, end) - 1), start)

extractNumRange(num, start, end) == Shr(BitAnd(num, Shl(1, end) - 1), start)

\* v ?? d for an optional v
OrElse(v, d) == IF v = <<>> THEN d ELSE v[1]

\* ------------------------------------------------------------ constructor
\* The constructor calls the model follows.  build: "index" is src/index.ts
\* (npm), "mod" is the JSR build.  shape: "object" = new Quark(options),
\* "positional" = new Quark(machineId, epoch, c) with the last three fields
\* those of c, "null" = new Quark(null), "other" = new Quark("x").
\* timeSynchronization is <<>> (absent or not enabled) or one record of what
\* the environment answers: installed = isPackageInstalled("ntp.js"),
\* poolValid = isValidURL(poolServerName ?? "pool.ntp.org").
Builds == {"index", "mod"}
MachineIds == {-1, 1, 1025}
Epochs == {<<>>, <<-1>>, <<1>>}
Alloc(m, s) == <<[machineId |-> m, sequence |-> s]>>
CustomAllocations ==
    {<<>>, Alloc(<<1>>, <<1>>), Alloc(<<2>>, <<0>>), Alloc(<<>>, <<2>>),
     Alloc(<<5>>, <<10>>), Alloc(<<15>>, <<10>>), Alloc(<<-5>>, <<25>>)}
TimeSynchronizations ==
    {<<[installed |-> i, poolValid |-> p]>> : i \in BOOLEAN, p \in BOOLEAN}

MkArgs(b, sh, m, e, ca, te, ts) ==
    [build |-> b, shape |-> sh, machineId |-> m, epoch |-> e,
     customAllocation |-> ca, throwError |-> te, timeSynchronization |-> ts]

ObjectArgs ==
    {MkArgs(b, "object", m, e, ca, te, <<>>) :
        b \in Builds, m \in MachineIds, e \in Epochs,
        ca \in CustomAllocations, te \in BOOLEAN}

PositionalArgs ==
    {MkArgs(b, "positional", m, e, ca, FALSE, <<>>) :
        b \in Builds, m \in MachineIds, e \in Epochs, ca \in CustomAllocations}

ShapelessArgs ==
    {MkArgs(b, sh, 1, <<>>, <<>>, FALSE, <<>>) :
        b \in Builds, sh \in {"null", "other"}}

NtpArgs ==
    {MkArgs("index", "object", 1, <<>>, Alloc(<<1>>, <<1>>), te, ts) :
        te \in BOOLEAN, ts \in TimeSynchronizations}

\* a negative width within the budget, with and without a negative epoch
ClampArgs ==
    {MkArgs(b, "object", 1, e, Alloc(<<-1>>, <<2>>), te, <<>>) :
        b \in Builds, e \in {<<>>, <<-1>>}, te \in BOOLEAN}

Args ==
    ObjectArgs \cup PositionalArgs \cup ShapelessArgs \cup NtpArgs
        \cup ClampArgs

\* the options object the constructor's first branches build; isNull marks
\* options = null (typeof null === "object" in the npm build)
DefaultOptions ==
    [isNull |-> FALSE, machineId |-> 1, epoch |-> <<0>>,
     customAllocation |-> Alloc(<<DefaultMachineIdBits>>, <<DefaultSequenceBits>>),
     throwError |-> FALSE, timeSynchronization |-> <<>>]

\* { machineId: 10, sequence: 12, ...(ca ?? {}) }
SpreadAllocation(ca) ==
    Alloc(IF ca = <<>> \/ ca[1].machineId = <<>>
             THEN <<DefaultMachineIdBits>> ELSE ca[1].machineId,
          IF ca = <<>> \/ ca[1].sequence = <<>>
             THEN <<DefaultSequenceBits>> ELSE ca[1].sequence)

\* the customAllocation the positional branch spreads into the defaults:
\* options.customAllocation of the still empty options (npm build),
\* c?.customAllocation (JSR build)
PositionalAllocation(a) ==
    IF a.build = "index" THEN <<>> ELSE a.customAllocation

Options(a) ==
    CASE a.shape = "object" ->
            [isNull |-> FALSE, machineId |-> a.machineId, epoch |-> a.epoch,
             customAllocation |-> a.customAllocation,
             throwError |-> a.throwError,
             timeSynchronization |-> a.timeSynchronization]
      [] a.shape = "positional" ->
            [isNull |-> FALSE, machineId |-> a.machineId, epoch |-> a.epoch,
             customAllocation |-> SpreadAllocation(PositionalAllocation(a)),
             throwError |-> FALSE, timeSynchronization |-> <<>>]
      [] a.shape = "null" ->
            IF a.build = "index"
            THEN [DefaultOptions EXCEPT !.isNull = TRUE]
            ELSE DefaultOptions
      [] OTHER -> DefaultOptions

\* this.machineId = options.machineId (npm), Math.max(options.machineId, 0) (JSR)
ConstructMachineId(b, m) == IF b = "index" THEN m ELSE MathMax(m, 0)

\* customAllocation?.machineId / customAllocation?.sequence
AllocField(ca, f) == IF ca = <<>> THEN <<>> ELSE ca[1][f]

\* mutant: a negative width is replaced by its magnitude
RequestedAllocationsMagnitude(ca) ==
    LET m == OrElse(AllocField(ca, "machineId"), DefaultMachineIdBits)
        q == OrElse(AllocField(ca, "sequence"), DefaultSequenceBits)
    IN  [machineId |-> IF m < 0 THEN -m ELSE m,
         sequence  |-> IF q < 0 THEN -q ELSE q]

\* the two Math.max assignments of this.allocations (numeric inputs)
RequestedAllocations(ca) ==
    [machineId |-> MathMax(OrElse(AllocField(ca, "machineId"), DefaultMachineIdBits), 0),
     sequence  |-> MathMax(OrElse(AllocField(ca, "sequence"), DefaultSequenceBits), 0)]

DefaultAllocations ==
    [machineId |-> DefaultMachineIdBits, sequence |-> DefaultSequenceBits]

Threw(msg) ==
    [status |-> "threw", error |-> msg, machineId |-> 0, epoch |-> 0,
     allocations |-> DefaultAllocations, ntpClient |-> FALSE]

\* mutant: a negative epoch is kept
ConstructEpochKeepsNegative(e) == e

\* this.epoch after the epoch check: a negative epoch becomes 0n
ConstructEpoch(e) == IF e < 0 THEN 0 ELSE e

\* the allocation check: the requested widths exceed the 22-bit budget
OverBudget(req) == req.machineId + req.sequence > MaxAllocation

\* mutant: an over-budget request only has its sequence width cut down
ConstructAllocationsClampsExcess(req) ==
    IF OverBudget(req)
    THEN [machineId |-> DefaultMachineIdBits,
          sequence  |-> MathMax(MaxAllocation - req.machineId, 0)]
    ELSE req

\* this.allocations after the allocation check (when it does not throw)
ConstructAllocations(req) ==
    IF OverBudget(req) THEN DefaultAllocations ELSE req

\* the constructor of the build a.build, as one function of its arguments
Constructor(a) ==
    LET o       == Options(a)
        ts      == o.timeSynchronization
        sync    == a.build = "index" /\ ts # <<>>
        enabled == sync /\ ts[1].installed
        e       == OrElse(o.epoch, 0)
        req     == RequestedAllocations(o.customAllocation)
        over    == OverBudget(req)
    IN  IF o.isNull THEN Threw("TypeError")
        ELSE IF sync /\ ~ts[1].installed /\ o.throwError
            THEN Threw("You must install ntp.js to use time synchronization")
        ELSE IF e < 0 /\ o.throwError THEN Threw("Epoch cannot be negative")
        ELSE IF over /\ o.throwError
            THEN Threw("Total bit allocation cannot exceed 22 bits")
        ELSE IF enabled /\ ~ts[1].poolValid /\ o.throwError
            THEN Threw("Invalid NTP pool server name")
        ELSE [status |-> "ready", error |-> "",
              machineId |-> ConstructMachineId(a.build, o.machineId),
              epoch |-> ConstructEpoch(e),
              allocations |-> ConstructAllocations(req),
              ntpClient |-> enabled]

\* the instance a constructor call of as leaves behind
ConstructedInstance(as) ==
    \E a \in as :
        LET c == Constructor(a)
        IN  /\ args = a
            /\ status = c.status
            /\ error = c.error
            /\ machineId = c.machineId
            /\ epoch = c.epoch
            /\ allocations = c.allocations
            /\ ntpClient = c.ntpClient
            /\ lastTimestamp = -1
            /\ sequence = 0
            /\ timeDifference = 0
            /\ calls = 0
            /\ recent = <<>>
            /\ emitted = {}
            /\ observed = [regular |-> TRUE, run |-> 0]

\* one instance, used by one caller at a time
Constructed(as) ==
    /\ ConstructedInstance(as)
    /\ other = <<>>
    /\ extracted = {}
    /\ race = <<>>

Init == Constructed(Args)

\* --------------------------------------------------------------- generate
\* Math.round(Date.now() + this.timeDifference), timeDifference in halves
AdjustedTime(dnow, td) == MathRound(2 * dnow + td)

\* mutant: the relative time is floored at 0
RelativeTimeFloorZero(adjustedTime, ep) == bigIntMax(adjustedTime - ep, 0)

\* bigIntMax(BigInt(adjustedTime) - this.epoch, 1n)
RelativeTime(adjustedTime, ep) == bigIntMax(adjustedTime - ep, 1)

\* mutant: the sequence is never reset when the clock advances
NextSequenceNoReset(timestamp, last, seq, sequenceBits) ==
    extractNumRange(seq + 1, 0, sequenceBits)

\* mutant: the sequence wraps one value early
NextSequenceEarlyWrap(timestamp, last, seq, sequenceBits) ==
    IF timestamp <= last /\ seq + 1 < Pow2(sequenceBits) - 1
    THEN seq + 1
    ELSE 0

\* mutant: the incremented sequence is not masked to sequenceBits
NextSequenceUnmasked(timestamp, last, seq, sequenceBits) ==
    IF timestamp <= last THEN seq + 1 ELSE 0

\* the new this.sequence
NextSequence(timestamp, last, seq, sequenceBits) ==
    IF timestamp <= last
    THEN extractNumRange(seq + 1, 0, sequenceBits)
    ELSE 0

\* mutant: no overflow correction
NextTimestampNoCorrection(timestamp, last, seq) == timestamp

\* mutant: the overflow correction stays on lastTimestamp
NextTimestampNoAdvance(timestamp, last, seq) ==
    IF seq = 0 THEN bigIntMax(timestamp, last) ELSE timestamp

\* mutant: the timestamp is moved past lastTimestamp on every call
NextTimestampAlwaysAdvances(timestamp, last, seq) ==
    bigIntMax(timestamp, last + 1)

\* mutant: the timestamp never falls back below lastTimestamp
NextTimestampMonotone(timestamp, last, seq) ==
    IF seq = 0 THEN bigIntMax(timestamp, last + 1) ELSE bigIntMax(timestamp, last)

\* if (!this.sequence) timestamp = bigIntMax(timestamp, this.lastTimestamp + 1n)
NextTimestamp(timestamp, last, seq) ==
    IF seq = 0 THEN bigIntMax(timestamp, last + 1) ELSE timestamp

\* mutant: the machineId field is shifted by its own width
PackSwappedShift(timestamp, mid, alloc, seq) ==
    BitOr(BitOr(Shl(timestamp, TimestampShift),
                Shl(extractNumRange(mid, 0, alloc.machineId), alloc.machineId)),
          seq)

\* mutant: the machine-id field is left out of the identifier
PackWithoutMachineId(timestamp, mid, alloc, seq) ==
    BitOr(Shl(timestamp, TimestampShift), seq)

\* the returned expression: timestamp << 22n | machineId field | sequence
Pack(timestamp, mid, alloc, seq) ==
    BitOr(BitOr(Shl(timestamp, TimestampShift),
                Shl(extractNumRange(mid, 0, alloc.machineId), alloc.sequence)),
          seq)

\* mutant: the timestamp is read at the configured offset
extractTimestampByLayout(quark, ep) ==
    ToNumber(Shr(quark, allocations.machineId + allocations.sequence) + ep)

extractTimestamp(quark, ep) == ToNumber(Shr(quark, TimestampShift) + ep)

extractMachineId(quark, alloc) ==
    ToNumber(extractNumRange(quark, alloc.sequence,
                             alloc.sequence + alloc.machineId))

extractSequence(quark, alloc) ==
    ToNumber(extractNumRange(quark, 0, alloc.sequence))

\* new Date(this.extractTimestamp(quark)), as the Date's time value
extractDate(quark, ep) == extractTimestamp(quark, ep)

extract(quark, ep, alloc) ==
    [timestamp |-> extractTimestamp(quark, ep),
     machineId |-> extractMachineId(quark, alloc),
     sequence  |-> extractSequence(quark, alloc)]

\* keep the last two calls
Remember(r, call) == IF Len(r) < 2 THEN Append(r, call) ELSE <<r[2], call>>

\* history of the clock as generate() saw it: regular as long as it never
\* went back, stayed above the epoch and showed no value to more than
\* 2^sequenceBits calls; run counts the calls that saw its latest value
Observe(o, r, adjustedTime) ==
    LET run == IF r = <<>> THEN 1
               ELSE IF adjustedTime = r[Len(r)].now THEN o.run + 1 ELSE 1
        ok  == /\ o.regular
               /\ (IF r = <<>> THEN TRUE ELSE adjustedTime >= r[Len(r)].now)
               /\ adjustedTime > epoch
               /\ run <= Pow2(allocations.sequence)
    IN  [regular |-> ok, run |-> IF ok THEN run ELSE 0]

\* one generate() call that reads dnow from Date.now()
GenerateCall(dnow) ==
    LET adjustedTime == AdjustedTime(dnow, timeDifference)
        timestamp    == RelativeTime(adjustedTime, epoch)
        seq          == NextSequence(timestamp, lastTimestamp, sequence,
                                     allocations.sequence)
        ts           == NextTimestamp(timestamp, lastTimestamp, seq)
        id           == Pack(ts, machineId, allocations, seq)
    IN  /\ status = "ready"
        /\ sequence' = seq
        /\ lastTimestamp' = ts
        /\ calls' = calls + 1
        /\ recent' = Remember(recent, [now |-> adjustedTime, id |-> id])
        /\ emitted' = emitted \cup {id}
        /\ observed' = Observe(observed, recent, adjustedTime)
        /\ UNCHANGED <<args, status, error, machineId, epoch, allocations,
                       ntpClient, timeDifference, other, extracted, race>>

\* generate() under any clock: Date.now() may advance, stall or go back
Generate ==
    /\ calls < MaxCalls
    /\ \E dnow \in 0..MaxClock : GenerateCall(dnow)

\* the NTP_EVENTS.SYNC handler: this.timeDifference = time - Date.now();
\* time is given in half milliseconds
Sync ==
    /\ status = "ready"
    /\ ntpClient
    /\ \E dnow \in 0..MaxClock, time \in 0..(2 * MaxClock + MaxSkew) :
        /\ time - 2 * dnow \in (-MaxSkew)..MaxSkew
        /\ timeDifference' = time - 2 * dnow
    /\ UNCHANGED <<args, status, error, machineId, lastTimestamp, sequence,
                   epoch, allocations, ntpClient, calls, recent, emitted,
                   other, extracted, race, observed>>

Next == Generate \/ Sync

Spec == Init /\ [][Next]_vars

\* ------------------------------------------------------- the frozen clock
\* A fresh instance whose clock never moves: machineId 1, no epoch, no time
\* synchronization, the default layout and small ones.
FrozenAllocations ==
    {<<>>, Alloc(<<1>>, <<1>>), Alloc(<<2>>, <<0>>), Alloc(<<0>>, <<2>>)}

FrozenArgs ==
    {MkArgs(b, "object", 1, <<>>, ca, FALSE, <<>>) :
        b \in Builds, ca \in FrozenAllocations}

InitFrozen == Constructed(FrozenArgs)

\* generate() with Date.now() returning what it returned to the first call
GenerateFrozen ==
    /\ calls < Pow2(allocations.sequence) + FrozenExtra
    /\ \E dnow \in 0..MaxClock :
        /\ IF recent = <<>> THEN TRUE ELSE dnow = recent[Len(recent)].now
        /\ GenerateCall(dnow)

NextFrozen == GenerateFrozen

SpecFrozen == InitFrozen /\ [][NextFrozen]_vars

\* ---------------------------------------------------------- two instances
\* Two instances of one build with the same layout, each with its own
\* machineId and epoch, called in any order under any clocks.
TwoAllocations == {Alloc(<<1>>, <<1>>), Alloc(<<2>>, <<0>>)}

TwoArgs ==
    {MkArgs(b, "object", m, e, ca, FALSE, <<>>) :
        b \in Builds, m \in {-1, 1, 2}, e \in {<<>>, <<1>>},
        ca \in TwoAllocations}

\* the fields of a freshly constructed instance
NewInstance(c) ==
    [machineId |-> c.machineId, epoch |-> c.epoch,
     allocations |-> c.allocations, lastTimestamp |-> -1, sequence |-> 0,
     calls |-> 0, emitted |-> {}]

InitTwo ==
    \E a \in TwoArgs, b \in TwoArgs :
        /\ a.build = b.build
        /\ a.customAllocation = b.customAllocation
        /\ b.machineId > 0
        /\ b.epoch = <<>>
        /\ ConstructedInstance({a})
        /\ other = <<NewInstance(Constructor(b))>>
        /\ extracted = {}
        /\ race = <<>>

\* generate() on the first instance
GenerateThis ==
    /\ other # <<>>
    /\ calls + other[1].calls < MaxCalls
    /\ \E dnow \in 0..MaxClock : GenerateCall(dnow)

\* one generate() call on the second instance, reading dnow from Date.now()
OtherGenerateCall(dnow) ==
    LET o            == other[1]
        adjustedTime == AdjustedTime(dnow, 0)
        timestamp    == RelativeTime(adjustedTime, o.epoch)
        seq          == NextSequence(timestamp, o.lastTimestamp, o.sequence,
                                     o.allocations.sequence)
        ts           == NextTimestamp(timestamp, o.lastTimestamp, seq)
        id           == Pack(ts, o.machineId, o.allocations, seq)
    IN  /\ other' = <<[o EXCEPT !.sequence = seq,
                                !.lastTimestamp = ts,
                                !.calls = @ + 1,
                                !.emitted = @ \cup {id}]>>
        /\ UNCHANGED <<args, status, error, machineId, lastTimestamp,
                       sequence, epoch, allocations, ntpClient,
                       timeDifference, calls, recent, emitted, extracted,
                       race, observed>>

GenerateOther ==
    /\ other # <<>>
    /\ calls + other[1].calls < MaxCalls
    /\ \E dnow \in 0..MaxClock : OtherGenerateCall(dnow)

NextTwo == GenerateThis \/ GenerateOther

SpecTwo == InitTwo /\ [][NextTwo]_vars

\* ------------------------------------------------- generate and extract
\* One instance on which extract(), extractDate() and generate() calls are
\* made in any order; extract is given identifiers of the instance and 0.
ExtractAllocations == {<<>>, Alloc(<<1>>, <<1>>)}

ExtractArgs ==
    {MkArgs(b, "object", m, e, ca, FALSE, <<>>) :
        b \in Builds, m \in {-1, 1}, e \in {<<>>, <<1>>},
        ca \in ExtractAllocations}

InitExtract == Constructed(ExtractArgs)

\* mutant: extract loads the fields of the identifier into the instance
ExtractCallLoadsState(quark) ==
    /\ status = "ready"
    /\ extracted' = extracted \cup
            {[quark |-> quark, info |-> extract(quark, epoch, allocations),
              date |-> extractDate(quark, epoch)]}
    /\ lastTimestamp' = Shr(quark, TimestampShift)
    /\ sequence' = extractSequence(quark, allocations)
    /\ UNCHANGED <<args, status, error, machineId, epoch, allocations,
                   ntpClient, timeDifference, calls, recent, emitted, other,
                   race, observed>>

\* extract(quark) and extractDate(quark): the results are recorded
ExtractCall(quark) ==
    /\ status = "ready"
    /\ extracted' = extracted \cup
            {[quark |-> quark, info |-> extract(quark, epoch, allocations),
              date |-> extractDate(quark, epoch)]}
    /\ UNCHANGED <<args, status, error, machineId, lastTimestamp, sequence,
                   epoch, allocations, ntpClient, timeDifference, calls,
                   recent, emitted, other, race, observed>>

Extract ==
    /\ Cardinality(extracted) < MaxExtracts
    /\ \E quark \in emitted \cup {0} : ExtractCall(quark)

NextExtract == Generate \/ Extract

SpecExtract == InitExtract /\ [][NextExtract]_vars

\* ------------------------------------------- two overlapping generate calls
\* Two callers each make one generate() call on one fresh instance, and the
\* statements of the two calls run in any order. The clock never goes back.
\* race[1] holds the clock, each caller's position and local timestamp, the
\* identifiers in the order they were returned, and whether a call began
\* while the other was under way.
Callers == {1, 2}

RaceAllocations == {<<>>, Alloc(<<5>>, <<10>>), Alloc(<<2>>, <<0>>)}

RaceArgs ==
    {MkArgs(b, "object", 1, e, ca, FALSE, <<>>) :
        b \in Builds, e \in {<<>>, <<1>>}, ca \in RaceAllocations}

InitRace ==
    /\ ConstructedInstance(RaceArgs)
    /\ other = <<>>
    /\ extracted = {}
    /\ race = <<[clock |-> 0, pc |-> <<"idle", "idle">>,
                 timestamp |-> <<0, 0>>, returned |-> <<>>,
                 overlap |-> FALSE]>>

Underway(pc) == pc \in {"sequence", "correct", "return"}

\* const adjustedTime = ...; let timestamp = bigIntMax(...)
RaceReadClock(p) ==
    /\ race[1].pc[p] = "idle"
    /\ \E dnow \in race[1].clock..MaxClock :
          race' = <<[race[1] EXCEPT
                        !.clock = dnow,
                        !.pc[p] = "sequence",
                        !.timestamp[p] =
                            RelativeTime(AdjustedTime(dnow, timeDifference), epoch),
                        !.overlap = @ \/ Underway(race[1].pc[3 - p])]>>
    /\ UNCHANGED <<args, status, error, machineId, lastTimestamp, sequence,
                   epoch, allocations, ntpClient, timeDifference, calls,
                   recent, emitted, other, extracted, observed>>

\* this.sequence = timestamp <= this.lastTimestamp ? ... : 0n
RaceSequence(p) ==
    /\ race[1].pc[p] = "sequence"
    /\ sequence' = NextSequence(race[1].timestamp[p], lastTimestamp, sequence,
                                allocations.sequence)
    /\ race' = <<[race[1] EXCEPT !.pc[p] = "correct"]>>
    /\ UNCHANGED <<args, status, error, machineId, lastTimestamp, epoch,
                   allocations, ntpClient, timeDifference, calls, recent,
                   emitted, other, extracted, observed>>

\* if (!this.sequence) timestamp = bigIntMax(timestamp, this.lastTimestamp + 1n)
RaceCorrect(p) ==
    /\ race[1].pc[p] = "correct"
    /\ race' = <<[race[1] EXCEPT
                    !.pc[p] = "return",
                    !.timestamp[p] = NextTimestamp(@, lastTimestamp, sequence)]>>
    /\ UNCHANGED <<args, status, error, machineId, lastTimestamp, sequence,
                   epoch, allocations, ntpClient, timeDifference, calls,
                   recent, emitted, other, extracted, observed>>

\* mutant: the returned timestamp is not stored in this.lastTimestamp
RaceReturnNoStore(p) ==
    LET id == Pack(race[1].timestamp[p], machineId, allocations, sequence)
    IN  /\ race[1].pc[p] = "return"
        /\ race' = <<[race[1] EXCEPT !.pc[p] = "done",
                                     !.returned = Append(@, id)]>>
        /\ calls' = calls + 1
        /\ emitted' = emitted \cup {id}
        /\ UNCHANGED <<args, status, error, machineId, lastTimestamp,
                       sequence, epoch, allocations, ntpClient,
                       timeDifference, recent, other, extracted, observed>>

\* return ((this.lastTimestamp = timestamp) << 22n) | ... | this.sequence
RaceReturn(p) ==
    LET id == Pack(race[1].timestamp[p], machineId, allocations, sequence)
    IN  /\ race[1].pc[p] = "return"
        /\ lastTimestamp' = race[1].timestamp[p]
        /\ race' = <<[race[1] EXCEPT !.pc[p] = "done",
                                     !.returned = Append(@, id)]>>
        /\ calls' = calls + 1
        /\ emitted' = emitted \cup {id}
        /\ UNCHANGED <<args, status, error, machineId, sequence, epoch,
                       allocations, ntpClient, timeDifference, recent, other,
                       extracted, observed>>

NextRace ==
    \E p \in Callers :
        \/ RaceReadClock(p)
        \/ RaceSequence(p)
        \/ RaceCorrect(p)
        \/ RaceReturn(p)

SpecRace == InitRace /\ [][NextRace]_vars

\* ----------------------------------------------------- reading the history
\* the call before the last one and the last one, when there are two
Prev == recent[1]
Last == recent[Len(recent)]
TwoCalls == Len(recent) = 2

\* the timestamp field of an identifier, relative to the epoch
FieldTimestamp(quark) == extractTimestamp(quark, epoch) - epoch
FieldSequence(quark) == extractSequence(quark, allocations)
FieldMachineId(quark) == extractMachineId(quark, allocations)

TypeOK ==
    /\ args \in Args \cup FrozenArgs
    /\ status \in {"ready", "threw"}
    /\ lastTimestamp \in Int
    /\ sequence \in 0..(Pow2(allocations.sequence) - 1)
    /\ calls \in Nat
    /\ Len(recent) <= 2

\* ------------------------------------------------------------- the claims
Generated == status = "ready" /\ calls >= 1

\* (timestamp, sequence) of p is not after that of q
LexLeq(p, q) ==
    \/ FieldTimestamp(p) < FieldTimestamp(q)
    \/ /\ FieldTimestamp(p) = FieldTimestamp(q)
       /\ FieldSequence(p) <= FieldSequence(q)

\* C1: the identifiers returned by the generate() calls made so far on one
\* instance are pairwise distinct, whatever the clock did between the calls
\* (as many distinct identifiers as calls).
C1_PairwiseDistinct == Cardinality(emitted) = calls

\* C2: with the clock frozen, no two of the identifiers returned so far carry
\* the same (timestamp, sequence) pair, also after the sequence has wrapped.
C2_FrozenPairsDistinct ==
    Cardinality({<<FieldTimestamp(q), FieldSequence(q)>> : q \in emitted}) = calls

\* C3: of two consecutive generate() calls the later identifier is not
\* smaller than the earlier one in the (timestamp, sequence) order, also when
\* the later call sees an equal or a smaller clock value.
C3_NonDecreasing == TwoCalls => LexLeq(Prev.id, Last.id)

\* C4: two adjacent generate() calls never return the same identifier, for
\* every clock value and every layout (sequenceBits = 0 included).
C4_AdjacentDistinct == TwoCalls => Prev.id # Last.id

\* C4 witness: two calls on a layout without sequence bits, the second one
\* seeing a clock that did not advance.
C4_Witness ==
    /\ TwoCalls
    /\ allocations.sequence = 0
    /\ Last.now <= Prev.now

\* C5 as stated: when the second of two consecutive calls sees a larger clock
\* value than the first, its identifier carries sequence 0.
C5_AdvanceResetsSequence ==
    (TwoCalls /\ Last.now > Prev.now) => FieldSequence(Last.id) = 0

\* C5 amended: when the epoch-relative time max(now - epoch, 1) seen by the
\* second call is greater than the timestamp of the identifier the first call
\* returned, the second identifier carries sequence 0.
C5_RelativeAdvanceResetsSequence ==
    (TwoCalls /\ RelativeTime(Last.now, epoch) > FieldTimestamp(Prev.id))
        => FieldSequence(Last.id) = 0

\* C5 witness: the sequence was counting (previous sequence above 0) and the
\* relative time passed the previous timestamp.
C5_Witness ==
    /\ TwoCalls
    /\ RelativeTime(Last.now, epoch) > FieldTimestamp(Prev.id)
    /\ FieldSequence(Prev.id) > 0
    /\ FieldSequence(Last.id) = 0

\* the frozen scenario of C6: machineId 1, epoch 0, the clock frozen at T >= 1
FrozenScenario ==
    /\ Generated
    /\ args.machineId = 1
    /\ epoch = 0
    /\ Last.now >= 1

\* C6 as stated: with sequenceBits = b and the clock frozen at T, call
\* k <= 2^b - 1 returns (T, k - 1) and call 2^b returns (T + 1, 0).
C6_WrapOnCall2PowB ==
    FrozenScenario =>
        LET b == allocations.sequence
            T == Last.now
        IN  /\ calls <= Pow2(b) - 1 =>
                /\ extractTimestamp(Last.id, epoch) = T
                /\ extractSequence(Last.id, allocations) = calls - 1
            /\ calls = Pow2(b) =>
                /\ extractTimestamp(Last.id, epoch) = T + 1
                /\ extractSequence(Last.id, allocations) = 0

\* C6 amended: call k <= 2^b returns (T, k - 1) and it is call 2^b + 1 that
\* returns (T + 1, 0); with the default layout calls 1..4096 return T with
\* sequence 0..4095 and call 4097 returns (T + 1, 0).
C6_WrapOnCallAfter2PowB ==
    FrozenScenario =>
        LET b == allocations.sequence
            T == Last.now
        IN  /\ calls <= Pow2(b) =>
                /\ extractTimestamp(Last.id, epoch) = T
                /\ extractSequence(Last.id, allocations) = calls - 1
            /\ calls = Pow2(b) + 1 =>
                /\ extractTimestamp(Last.id, epoch) = T + 1
                /\ extractSequence(Last.id, allocations) = 0

\* C6 witness: a layout with sequence bits after call 2^b + 1.
C6_Witness ==
    /\ FrozenScenario
    /\ allocations.sequence >= 1
    /\ calls = Pow2(allocations.sequence) + 1

\* the step is a generate() call in which the sequence counter wraps
WrapStep ==
    /\ calls >= 1
    /\ calls' = calls + 1
    /\ sequence = Pow2(allocations.sequence) - 1
    /\ RelativeTime(Last'.now, epoch) <= lastTimestamp

\* C7: a generate() call in which the sequence wraps (the sequence was
\* 2^sequenceBits - 1 and the relative time is not after lastTimestamp)
\* returns sequence 0 and a timestamp at least one millisecond after the
\* timestamp of the identifier returned before it.
C7_WrapAdvancesTimestamp ==
    [][WrapStep =>
        /\ FieldSequence(Last'.id) = 0
        /\ FieldTimestamp(Last'.id) >= FieldTimestamp(Last.id) + 1]_vars

\* C7 witness: a layout with sequence bits whose counter has just wrapped
\* under a clock that did not pass the previous timestamp.
C7_Witness ==
    /\ TwoCalls
    /\ allocations.sequence >= 1
    /\ FieldSequence(Prev.id) = Pow2(allocations.sequence) - 1
    /\ RelativeTime(Last.now, epoch) <= FieldTimestamp(Prev.id)
    /\ FieldSequence(Last.id) = 0

\* the constructor call is valid but for the sign of its machineId
ValidButMachineId ==
    /\ args.shape \in {"object", "positional"}
    /\ OrElse(args.epoch, 0) >= 0
    /\ args.timeSynchronization = <<>>
    /\ LET req == RequestedAllocations(args.customAllocation)
       IN  req.machineId + req.sequence <= MaxAllocation

\* C8: a constructor call with a negative machineId does not fail, in either
\* mode, and every identifier of the instance has extracted machineId 0.
C8_NegativeMachineIdIsZero ==
    (args.machineId < 0 /\ ValidButMachineId) =>
        /\ status = "ready"
        /\ calls >= 1 => extractMachineId(Last.id, allocations) = 0

\* C9: for a machineId >= 0 the identifier generate() returns carries
\* machineId mod 2^machineIdBits in its machine-id field, and the sequence
\* and timestamp fields hold this.sequence and this.lastTimestamp: a wide
\* machineId leaves them alone.
C9_MachineIdRoundTrip ==
    (Generated /\ machineId >= 0) =>
        /\ extractMachineId(Last.id, allocations)
              = machineId % Pow2(allocations.machineId)
        /\ extractSequence(Last.id, allocations) = sequence
        /\ extractTimestamp(Last.id, epoch) = lastTimestamp + epoch

\* C9 witness: a machineId wider than machineIdBits, with a sequence above 0.
C9_Witness ==
    /\ Generated
    /\ machineId >= Pow2(allocations.machineId)
    /\ allocations.machineId >= 1
    /\ sequence > 0

\* C10 as stated: the timestamp sits at bit machineIdBits + sequenceBits.
C10_TimestampAtConfiguredOffset ==
    Generated =>
        LET m == allocations.machineId
            s == allocations.sequence
        IN  /\ Last.id = lastTimestamp * Pow2(m + s)
                          + (machineId % Pow2(m)) * Pow2(s) + sequence
            /\ extractTimestamp(Last.id, epoch) = Shr(Last.id, m + s) + epoch

\* C10 amended: the timestamp sits at bit 22 whatever the layout, the
\* masked machineId at bit sequenceBits and the sequence at bit 0, and
\* extractTimestamp returns (identifier >> 22) + epoch, which is the
\* timestamp generate() packed plus the epoch.
C10_TimestampAtBit22 ==
    Generated =>
        LET m == allocations.machineId
            s == allocations.sequence
        IN  /\ Last.id = lastTimestamp * Pow2(TimestampShift)
                          + (machineId % Pow2(m)) * Pow2(s) + sequence
            /\ extractTimestamp(Last.id, epoch) = lastTimestamp + epoch

\* C10 witness: a layout of fewer than 22 bits with all three fields set.
C10_Witness ==
    /\ Generated
    /\ allocations.machineId + allocations.sequence < MaxAllocation
    /\ machineId % Pow2(allocations.machineId) > 0
    /\ sequence > 0

\* the widths a constructor call asks for, negative ones clamped to 0
Requested == RequestedAllocations(args.customAllocation)
RequestedSum == Requested.machineId + Requested.sequence

\* the other checks of the constructor pass: the epoch is not negative and
\* no time synchronization is asked for
EpochAndSyncValid ==
    /\ OrElse(args.epoch, 0) >= 0
    /\ args.timeSynchronization = <<>>

\* C11: new Quark(options) with clamped widths summing to more than 22
\* fails when throwError is set and otherwise succeeds with both widths
\* reset to (10, 12); with a sum of at most 22 the requested widths are kept
\* in both modes; every constructed instance has widths summing to at most 22.
C11_BitBudget ==
    /\ status = "ready" =>
          allocations.machineId + allocations.sequence <= MaxAllocation
    /\ (args.shape = "object" /\ RequestedSum > MaxAllocation) =>
          IF args.throwError
          THEN status = "threw"
          ELSE /\ status = "ready"
               /\ allocations.machineId = DefaultMachineIdBits
               /\ allocations.sequence = DefaultSequenceBits
    /\ (args.shape = "object" /\ RequestedSum <= MaxAllocation
          /\ EpochAndSyncValid) =>
          /\ status = "ready"
          /\ allocations = Requested

\* C11 witness: a lenient over-budget request whose machineId width alone is
\* below the default, constructed and reset to the defaults.
C11_Witness ==
    /\ args.shape = "object"
    /\ ~args.throwError
    /\ RequestedSum > MaxAllocation
    /\ Requested.machineId < DefaultMachineIdBits
    /\ status = "ready"
    /\ calls >= 1

\* C12: a constructor call with a negative epoch fails when throwError is
\* set and otherwise succeeds with epoch 0; an epoch >= 0 is kept in both
\* modes; every constructed instance has an epoch >= 0.
C12_EpochValidation ==
    /\ status = "ready" => epoch >= 0
    /\ (args.shape \in {"object", "positional"} /\ OrElse(args.epoch, 0) < 0) =>
          IF args.throwError
          THEN status = "threw"
          ELSE status = "ready" /\ epoch = 0
    /\ (args.shape \in {"object", "positional"} /\ OrElse(args.epoch, 0) >= 0
          /\ status = "ready") =>
          epoch = OrElse(args.epoch, 0)

\* C12 witness: a lenient call with a negative epoch, constructed and used.
C12_Witness ==
    /\ args.epoch # <<>>
    /\ OrElse(args.epoch, 0) < 0
    /\ ~args.throwError
    /\ status = "ready"
    /\ calls >= 1

\* C13: the epoch-relative timestamp of every generated identifier is at
\* least 1, whatever the clock; the first identifier of an instance whose
\* clock equals its epoch has timestamp epoch + 1, sequence 0 and the
\* configured machineId.
C13_TimestampAtLeastOne ==
    Generated =>
        /\ FieldTimestamp(Last.id) >= 1
        /\ (calls = 1 /\ Last.now = epoch) =>
              /\ extractTimestamp(Last.id, epoch) = epoch + 1
              /\ extractSequence(Last.id, allocations) = 0
              /\ machineId \in 0..(Pow2(allocations.machineId) - 1) =>
                    extractMachineId(Last.id, allocations) = machineId

\* C13 witness: the first call of an instance with epoch 1 at clock 1.
C13_Witness ==
    /\ Generated
    /\ calls = 1
    /\ epoch >= 1
    /\ Last.now = epoch
    /\ machineId \in 1..(Pow2(allocations.machineId) - 1)

\* C19: a constructed instance has lastTimestamp = -1 and sequence = 0
\* before its first generate(); after every generate() lastTimestamp and
\* sequence are the timestamp and sequence fields of the identifier it
\* returned, the sequence fits sequenceBits, and the machine-id field is
\* intact, for every layout.
C19_StateIsLastIdentifier ==
    status = "ready" =>
        IF calls = 0
        THEN lastTimestamp = -1 /\ sequence = 0
        ELSE /\ extractTimestamp(Last.id, epoch) = lastTimestamp + epoch
             /\ extractSequence(Last.id, allocations) = sequence
             /\ sequence \in 0..(Pow2(allocations.sequence) - 1)
             /\ extractMachineId(Last.id, allocations)
                   = machineId % Pow2(allocations.machineId)

\* C19 witness: a layout of fewer than 22 bits after a call that counted
\* the sequence up at a timestamp above 1.
C19_Witness ==
    /\ Generated
    /\ allocations.machineId + allocations.sequence < MaxAllocation
    /\ lastTimestamp > 1
    /\ sequence = Pow2(allocations.sequence) - 1
    /\ sequence > 0

\* the step is a generate() call
GenerateStep == calls' = calls + 1

\* C20: with r = max(now - epoch, 1), L = lastTimestamp and s = sequence
\* before the call, generate() returns (r, 0) when r > L, (r, s + 1) when
\* r <= L and s + 1 < 2^sequenceBits, and (L + 1, 0) when r <= L and
\* s + 1 = 2^sequenceBits, and leaves that pair in the state.
C20_TieBreak ==
    [][GenerateStep =>
        LET r  == RelativeTime(Last'.now, epoch)
            L  == lastTimestamp
            s  == sequence
            b  == allocations.sequence
            ts == FieldTimestamp(Last'.id)
            sq == FieldSequence(Last'.id)
        IN  /\ r > L => (ts = r /\ sq = 0)
            /\ (r <= L /\ s + 1 < Pow2(b)) => (ts = r /\ sq = s + 1)
            /\ (r <= L /\ s + 1 = Pow2(b)) => (ts = L + 1 /\ sq = 0)
            /\ lastTimestamp' = ts
            /\ sequence' = sq]_vars

\* C20 witness: a call whose relative time was below lastTimestamp and
\* whose identifier fell back to that time with the next sequence.
C20_Witness ==
    /\ TwoCalls
    /\ RelativeTime(Last.now, epoch) < FieldTimestamp(Prev.id)
    /\ FieldTimestamp(Last.id) = RelativeTime(Last.now, epoch)
    /\ FieldSequence(Last.id) = FieldSequence(Prev.id) + 1

\* C16: new Quark(machineId, epoch, options) with options.customAllocation
\* summing to at most 22 constructs an instance whose bit widths are the
\* requested ones, as new Quark(options) does.
C16_PositionalCustomAllocation ==
    (/\ args.shape = "positional"
     /\ args.customAllocation # <<>>
     /\ RequestedSum <= MaxAllocation) =>
        /\ status = "ready"
        /\ allocations = Requested

\* C17: a constructor call with an unrecognized argument shape, such as
\* new Quark(null), does not fail and yields machineId 1, epoch 0 and the
\* bit widths (10, 12).
C17_UnrecognizedShapeDefaults ==
    args.shape \in {"null", "other"} =>
        /\ status = "ready"
        /\ machineId = 1
        /\ epoch = 0
        /\ allocations = DefaultAllocations

\* the machine-id field an instance writes into its identifiers
MachineIdField(mid, alloc) == mid % Pow2(alloc.machineId)

\* the two instances have one layout and different machine-id fields
DisjointMachineIds ==
    /\ other # <<>>
    /\ other[1].allocations = allocations
    /\ MachineIdField(other[1].machineId, allocations)
          # MachineIdField(machineId, allocations)

\* C14: two instances with the same layout whose machineIds differ modulo
\* 2^machineIdBits never return the same identifier, whatever their clocks
\* and epochs and however their calls interleave; a generate() call on one
\* instance leaves lastTimestamp and sequence of the other unchanged.
C14_InstancesIndependent ==
    /\ [](DisjointMachineIds => emitted \cap other[1].emitted = {})
    /\ [][/\ calls' # calls => other' = other
          /\ other' # other => UNCHANGED <<lastTimestamp, sequence>>]_vars

\* C14 witness: both instances have returned an identifier with the same
\* timestamp and sequence fields.
C14_Witness ==
    /\ DisjointMachineIds
    /\ calls >= 1
    /\ other[1].calls >= 1
    /\ \E p \in emitted, q \in other[1].emitted :
          /\ Shr(p, TimestampShift) = Shr(q, TimestampShift)
          /\ extractSequence(p, allocations) = extractSequence(q, allocations)

\* what generate() reads and writes, and what it has returned
InstanceState ==
    <<machineId, lastTimestamp, sequence, epoch, allocations, timeDifference,
      calls, recent, emitted>>

\* C15: extract, extractTimestamp, extractDate, extractMachineId and
\* extractSequence leave lastTimestamp, sequence and the configuration
\* unchanged, and give one result per identifier whatever the state of the
\* instance at the call; generate() never changes machineId, epoch or the
\* bit allocations; so an extract call between two generate() calls leaves
\* everything generate() reads as it was.
C15_ExtractIsPure ==
    /\ [](\A x, y \in extracted : x.quark = y.quark => x = y)
    /\ [](\A x \in extracted :
             /\ x.info = extract(x.quark, epoch, allocations)
             /\ x.date = x.info.timestamp)
    /\ [][/\ extracted' # extracted => UNCHANGED InstanceState
          /\ calls' # calls =>
                UNCHANGED <<machineId, epoch, allocations, extracted>>]_vars

\* C15 witness: an identifier of the instance was extracted, and it is not
\* the last one: lastTimestamp and sequence differ from its fields.
C15_Witness ==
    /\ calls >= 2
    /\ \E x \in extracted :
          /\ x.quark \in emitted
          /\ x.quark # Last.id
          /\ x.info.sequence # sequence
          /\ x.info.timestamp # lastTimestamp + epoch

\* both callers have returned
BothReturned == race # <<>> /\ Len(race[1].returned) = 2

\* C18: when the statements of two generate() calls on one instance
\* interleave, the two calls can return the same identifier, or the later
\* one a smaller identifier, under a clock that never goes back and without
\* a sequence wrap; two calls that do not overlap return increasing
\* identifiers.
C18_RaceNeedsOverlap ==
    (BothReturned /\ ~race[1].overlap) =>
        race[1].returned[1] < race[1].returned[2]

\* C18 witness: two overlapping calls on an instance with the default
\* layout have returned the same identifier.
C18_Witness ==
    /\ BothReturned
    /\ race[1].overlap
    /\ allocations = DefaultAllocations
    /\ race[1].returned[1] = race[1].returned[2]

\* two overlapping calls: the later one returned a smaller identifier
RaceMisordered ==
    /\ BothReturned
    /\ race[1].overlap
    /\ allocations = DefaultAllocations
    /\ race[1].returned[2] < race[1].returned[1]

\* a width as asked for: absent gives the default d, negative gives 0
ClampedWidth(v, d) == IF v = <<>> THEN d ELSE IF v[1] < 0 THEN 0 ELSE v[1]
AskedMachineIdBits ==
    ClampedWidth(AllocField(args.customAllocation, "machineId"),
                 DefaultMachineIdBits)
AskedSequenceBits ==
    ClampedWidth(AllocField(args.customAllocation, "sequence"),
                 DefaultSequenceBits)

\* the constructor call asks for a negative width
NegativeWidth ==
    \E f \in {"machineId", "sequence"} :
        /\ AllocField(args.customAllocation, f) # <<>>
        /\ AllocField(args.customAllocation, f)[1] < 0

\* C21: in new Quark(options) a negative width is clamped to 0 without
\* error in both modes and the 22-bit check is applied to the clamped
\* widths: within the budget the clamped widths are kept, above it the call
\* throws when throwError is set and otherwise gets (10, 12); with a
\* negative epoch, an over-budget allocation and throwError, the error
\* raised is the epoch error.
C21_NegativeWidthsClamped ==
    (args.shape = "object" /\ args.timeSynchronization = <<>>) =>
        /\ (/\ NegativeWidth
            /\ AskedMachineIdBits + AskedSequenceBits <= MaxAllocation
            /\ ~(args.throwError /\ OrElse(args.epoch, 0) < 0)) =>
              /\ status = "ready"
              /\ allocations = [machineId |-> AskedMachineIdBits,
                                sequence  |-> AskedSequenceBits]
        /\ (/\ NegativeWidth
            /\ AskedMachineIdBits + AskedSequenceBits > MaxAllocation) =>
              IF args.throwError
              THEN status = "threw"
              ELSE status = "ready" /\ allocations = DefaultAllocations
        /\ (/\ args.throwError
            /\ OrElse(args.epoch, 0) < 0
            /\ AskedMachineIdBits + AskedSequenceBits > MaxAllocation) =>
              /\ status = "threw"
              /\ error = "Epoch cannot be negative"
        /\ (/\ args.throwError
            /\ OrElse(args.epoch, 0) >= 0
            /\ AskedMachineIdBits + AskedSequenceBits > MaxAllocation) =>
              /\ status = "threw"
              /\ error = "Total bit allocation cannot exceed 22 bits"

\* C21 witness: an instance built in strict mode from a negative width
\* has that width 0 and has generated an identifier.
C21_Witness ==
    /\ NegativeWidth
    /\ args.throwError
    /\ Generated
    /\ allocations.machineId = 0
    /\ allocations.sequence = AskedSequenceBits

\* the strict call with widths (-5, 25) and a negative epoch has thrown the
\* epoch error
C21_EpochErrorFirst ==
    /\ NegativeWidth
    /\ args.throwError
    /\ OrElse(args.epoch, 0) < 0
    /\ AskedMachineIdBits + AskedSequenceBits > MaxAllocation
    /\ error = "Epoch cannot be negative"

\* C22: as long as the clock never went back between calls, every clock
\* value was above the epoch and no clock value was seen by more than
\* 2^sequenceBits calls, no call wrapped the sequence (it counts the calls
\* at the latest clock value), lastTimestamp is the relative time the last
\* call saw, and every identifier is greater than the one before it, so all
\* are distinct.
C22_RegularClockStrictlyIncreasing ==
    /\ []((Generated /\ observed.regular) =>
            /\ lastTimestamp = Last.now - epoch
            /\ sequence = observed.run - 1
            /\ FieldTimestamp(Last.id) = Last.now - epoch
            /\ FieldSequence(Last.id) = observed.run - 1
            /\ TwoCalls => Prev.id < Last.id
            /\ Cardinality(emitted) = calls)
    /\ [][(GenerateStep /\ observed'.regular) => ~WrapStep]_vars

\* C22 witness: under a regular clock one clock value was seen by exactly
\* 2^sequenceBits calls, two or more, and a later call saw a later value.
C22_Witness ==
    /\ Generated
    /\ observed.regular
    /\ TwoCalls
    /\ Last.now > Prev.now
    /\ FieldSequence(Prev.id) = Pow2(allocations.sequence) - 1
    /\ FieldSequence(Prev.id) >= 1

\* the instance packs identifiers without a sequence field
NoSequenceBits == status = "ready" /\ allocations.sequence = 0

\* C23: with sequenceBits = 0 every generate() call returns sequence 0 and
\* the timestamp max(relativeTime, lastTimestamp + 1), so lastTimestamp
\* grows on every call and every identifier is greater than the one before
\* it, whether the clock advances, stalls or goes back.
C23_ZeroSequenceBits ==
    /\ [](NoSequenceBits => (sequence = 0 /\ Cardinality(emitted) = calls))
    /\ [][(GenerateStep /\ NoSequenceBits) =>
            /\ FieldSequence(Last'.id) = 0
            /\ FieldTimestamp(Last'.id)
                  = bigIntMax(RelativeTime(Last'.now, epoch), lastTimestamp + 1)
            /\ lastTimestamp' = FieldTimestamp(Last'.id)
            /\ lastTimestamp' > lastTimestamp
            /\ calls >= 1 => Last'.id > Last.id]_vars

\* C23 witness: with sequenceBits = 0 a call saw the clock at an earlier
\* value than the call before it and returned a greater identifier.
C23_Witness ==
    /\ NoSequenceBits
    /\ TwoCalls
    /\ Last.now < Prev.now
    /\ Last.id > Prev.id

====
